---- MODULE Spec2Model ----
(***************************************************************************)
(* Model of hb/runner.py (NodeProcessor): change detection over the nodes  *)
(* directory, merge of the *.txt files with provenance headers,            *)
(* classification of the merged lines by protocol prefix, the report, and  *)
(* the orchestrating run().                                                *)
(*                                                                         *)
(* Text is modelled at character level: a string is a sequence of          *)
(* one-character strings, so strip(), lower(), startswith(), the line      *)
(* iteration of a file and '\n'.join() are computed as Python computes     *)
(* them.  sha256 is modelled as injective on the bytes fed to it: a digest *)
(* is the record of the byte sequence fed to the accumulator.              *)
(***************************************************************************)
EXTENDS Integers, Sequences, FiniteSets, TLC

(***************************************************************************)
(* Bounds of the model.                                                    *)
(***************************************************************************)
MaxRuns == 2
MaxFaults == 1

(***************************************************************************)
(* Characters and strings.                                                 *)
(***************************************************************************)
NL == "\n"

\* the characters of the model in code-point order (str comparison, l.138)
Alphabet ==
    << "\n", " ", "#", ".", "/", "5", ":", "=",
       "H", "L", "P", "S", "T", "V",
       "a", "b", "c", "d", "e", "h", "j", "k", "l", "m", "n", "o", "p",
       "r", "s", "t", "u", "v", "x", "y" >>

Ord(c) == CHOOSE i \in 1..Len(Alphabet) : Alphabet[i] = c

\* str.strip() with no argument removes leading and trailing whitespace
IsSpace(c) == c \in {" ", "\n", "\t", "\r"}

RECURSIVE LStrip(_)
LStrip(s) ==
    IF s = <<>> THEN <<>>
    ELSE IF IsSpace(Head(s)) THEN LStrip(Tail(s)) ELSE s

RECURSIVE RStrip(_)
RStrip(s) ==
    IF s = <<>> THEN <<>>
    ELSE IF IsSpace(s[Len(s)]) THEN RStrip(SubSeq(s, 1, Len(s) - 1)) ELSE s

Strip(s) == RStrip(LStrip(s))

\* str.lower(): the ASCII capitals map to their small letters
Capitals ==
    <<"A", "B", "C", "D", "E", "F", "G", "H", "I", "J", "K", "L", "M",
      "N", "O", "P", "Q", "R", "S", "T", "U", "V", "W", "X", "Y", "Z">>

Smalls ==
    <<"a", "b", "c", "d", "e", "f", "g", "h", "i", "j", "k", "l", "m",
      "n", "o", "p", "q", "r", "s", "t", "u", "v", "w", "x", "y", "z">>

CapitalSet == {Capitals[i] : i \in 1..Len(Capitals)}

LowerTable ==
    [c \in CapitalSet |-> Smalls[CHOOSE i \in 1..Len(Capitals) : Capitals[i] = c]]

LowerChar(c) == IF c \in CapitalSet THEN LowerTable[c] ELSE c

Lower(s) == [i \in 1..Len(s) |-> LowerChar(s[i])]

StartsWith(s, p) == Len(s) >= Len(p) /\ SubSeq(s, 1, Len(p)) = p

EndsWith(s, p) ==
    Len(s) >= Len(p) /\ SubSeq(s, Len(s) - Len(p) + 1, Len(s)) = p

\* sep.join(parts)
RECURSIVE Join(_, _)
Join(parts, sep) ==
    IF parts = <<>> THEN <<>>
    ELSE IF Len(parts) = 1 THEN parts[1]
    ELSE parts[1] \o sep \o Join(Tail(parts), sep)

\* the index of the first newline of s at or after i, 0 when there is none
RECURSIVE FirstNewline(_, _)
FirstNewline(s, i) ==
    IF i > Len(s) THEN 0
    ELSE IF s[i] = NL THEN i ELSE FirstNewline(s, i + 1)

\* the lines a text-mode file iteration yields: each ends with its newline,
\* except a last line that has none
RECURSIVE FileLines(_)
FileLines(s) ==
    IF s = <<>> THEN <<>>
    ELSE LET i == FirstNewline(s, 1)
         IN  IF i = 0 THEN <<s>>
             ELSE <<SubSeq(s, 1, i)>> \o FileLines(SubSeq(s, i + 1, Len(s)))

\* lexicographic order of strings by code point
RECURSIVE StrLess(_, _)
StrLess(s, t) ==
    IF t = <<>> THEN FALSE
    ELSE IF s = <<>> THEN TRUE
    ELSE IF Head(s) = Head(t) THEN StrLess(Tail(s), Tail(t))
    ELSE Ord(Head(s)) < Ord(Head(t))

StrGreater(s, t) == StrLess(t, s)

\* order of sorted(): ascending
SortBefore(s, t) == StrLess(s, t)

\* sorted(S) for a finite set of strings
RECURSIVE Sorted(_)
Sorted(S) ==
    IF S = {} THEN <<>>
    ELSE LET m == CHOOSE x \in S : \A y \in S \ {x} : SortBefore(x, y)
         IN  <<m>> \o Sorted(S \ {m})

(***************************************************************************)
(* File names and file contents of the model.                              *)
(***************************************************************************)
DotTxt == <<".", "t", "x", "t">>
DotYaml == <<".", "y", "a", "m", "l">>
DotYml == <<".", "y", "m", "l">>

\* for ext in ['.txt', '.yaml', '.yml']
HashExts == <<DotTxt, DotYaml, DotYml>>

ATxt == <<"a">> \o DotTxt
BTxt == <<"b">> \o DotTxt
AYml == <<"a">> \o DotYml

Names == {ATxt, BTxt, AYml}

\* file contents the upstream producers write
Blank == <<NL>>
NameLine == <<NL>> \o ATxt \o <<NL>>
Mixed ==
    <<"V", "l", "e", "s", "s", ":", "/", "/", "x", NL,
      "#", "c", NL,
      " ", "s", "s", ":", "/", "/", "d", " ", NL>>

NoFile == [exists |-> FALSE, readable |-> FALSE, data |-> <<>>]
File(d) == [exists |-> TRUE, readable |-> TRUE, data |-> d]
Locked(d) == [exists |-> TRUE, readable |-> FALSE, data |-> d]

Dir(a, b, y) ==
    [exists |-> TRUE,
     files |-> [n \in Names |-> IF n = ATxt THEN a ELSE IF n = BTxt THEN b ELSE y]]

NoDir == [exists |-> FALSE, files |-> [n \in Names |-> NoFile]]

\* the states of the nodes directory the model draws from
Dirs ==
    { Dir(NoFile, File(Blank), NoFile),
      Dir(NoFile, File(NameLine), NoFile),
      Dir(File(Blank), File(Blank), NoFile),
      Dir(File(Mixed), File(Blank), NoFile),
      Dir(File(Mixed), File(NameLine), NoFile),
      Dir(Locked(Mixed), File(NameLine), NoFile),
      Dir(NoFile, File(Blank), File(Blank)),
      NoDir }

(***************************************************************************)
(* calculate_hash                                                          *)
(***************************************************************************)
\* dir_path.glob('*' + ext): the names of the directory that end with ext
Glob(dir, ext) ==
    IF dir.exists
    THEN {n \in Names : dir.files[n].exists /\ EndsWith(n, ext)}
    ELSE {}

\* files.extend(sorted(dir_path.glob(...))) for each extension in turn
RECURSIVE HashFiles(_, _)
HashFiles(dir, exts) ==
    IF exts = <<>> THEN <<>>
    ELSE Sorted(Glob(dir, Head(exts))) \o HashFiles(dir, Tail(exts))

\* what one file feeds to the accumulator: its bytes, then its name; a file
\* that cannot be opened feeds nothing
FileFeed(dir, n) ==
    IF dir.files[n].readable THEN dir.files[n].data \o n ELSE <<>>

RECURSIVE HashFeed(_, _)
HashFeed(dir, files) ==
    IF files = <<>> THEN <<>>
    ELSE FileFeed(dir, Head(files)) \o HashFeed(dir, Tail(files))

EmptyHash == [kind |-> "empty", feed |-> <<>>]

calculate_hash(dir) ==
    IF ~dir.exists THEN EmptyHash
    ELSE [kind |-> "digest", feed |-> HashFeed(dir, HashFiles(dir, HashExts))]

(***************************************************************************)
(* check_changes                                                           *)
(***************************************************************************)
NoMarker == [exists |-> FALSE, hash |-> EmptyHash]

\* with open(hash_file, 'w') as f: f.write(current_hash)
KeepMarker(last, current_hash) ==
    IF last.exists THEN last ELSE [exists |-> TRUE, hash |-> current_hash]

SaveNothing(last, current_hash) == last

SaveHash(last, current_hash) == [exists |-> TRUE, hash |-> current_hash]

\* has_changes = (last_hash is None or last_hash != current_hash)
HasChanges(last, current_hash) ==
    ~last.exists \/ last.hash # current_hash

(***************************************************************************)
(* merge_files                                                             *)
(***************************************************************************)
Header(name) ==
    <<"#", " ", "=", "=", "=", " ">> \o name \o <<" ", "=", "=", "=">>

\* the for loop over txt_files: merged_content after the files of `files`
RECURSIVE MergeLoop(_, _, _)
MergeLoop(dir, files, merged_content) ==
    IF files = <<>> THEN merged_content
    ELSE LET f == dir.files[Head(files)]
             content == Strip(f.data)
         IN  IF f.readable /\ content # <<>>
             THEN MergeLoop(dir, Tail(files),
                            merged_content \o <<Header(Head(files)), content, <<>>>>)
             ELSE MergeLoop(dir, Tail(files), merged_content)

MergedText(dir) ==
    Join(MergeLoop(dir, Sorted(Glob(dir, DotTxt)), <<>>), <<NL>>)

\* open(path, 'w') followed by write(data)
AppendFile(old, data) == [exists |-> TRUE, data |-> old.data \o data]

WriteFile(old, data) == [exists |-> TRUE, data |-> data]

(***************************************************************************)
(* split_by_protocol                                                       *)
(***************************************************************************)
\* the keys of `protocols`, in the order the dict declares them
Protocols == <<"vless", "vmess", "trojan", "ss", "ssr", "http", "https", "socks5">>

Prefix(proto) ==
    CASE proto = "vless" -> <<"v", "l", "e", "s", "s", ":", "/", "/">>
      [] proto = "vmess" -> <<"v", "m", "e", "s", "s", ":", "/", "/">>
      [] proto = "trojan" -> <<"t", "r", "o", "j", "a", "n", ":", "/", "/">>
      [] proto = "ss" -> <<"s", "s", ":", "/", "/">>
      [] proto = "ssr" -> <<"s", "s", "r", ":", "/", "/">>
      [] proto = "http" -> <<"h", "t", "t", "p", ":", "/", "/">>
      [] proto = "https" -> <<"h", "t", "t", "p", "s", ":", "/", "/">>
      [] proto = "socks5" -> <<"s", "o", "c", "k", "s", "5", ":", "/", "/">>

ProtocolSet == {Protocols[i] : i \in 1..Len(Protocols)}
Buckets == ProtocolSet \cup {"other"}

MatchesExact(line, proto) == StartsWith(line, Prefix(proto))

\* line.lower().startswith(prefix)
Matches(line, proto) == StartsWith(Lower(line), Prefix(proto))

\* the inner for loop: the first protocol, in declaration order, that matches
RECURSIVE FirstMatch(_, _)
FirstMatch(line, protos) ==
    IF protos = <<>> THEN "other"
    ELSE IF Matches(line, Head(protos)) THEN Head(protos)
    ELSE FirstMatch(line, Tail(protos))

EmptyBuckets == [b \in Buckets |-> <<>>]

\* if not line or line.startswith('#'): continue
Skipped(line) == line = <<>> \/ Head(line) = "#"

\* the loop over the lines of the input file
RECURSIVE SplitLoop(_, _)
SplitLoop(lines, acc) ==
    IF lines = <<>> THEN acc
    ELSE LET line == Strip(Head(lines))
         IN  IF Skipped(line) THEN SplitLoop(Tail(lines), acc)
             ELSE LET b == FirstMatch(line, Protocols)
                  IN  SplitLoop(Tail(lines), [acc EXCEPT ![b] = Append(@, line)])

Classify(text) == SplitLoop(FileLines(text), EmptyBuckets)

\* the order in which the bucket files are written: the protocols, then other
WriteOrder == Protocols \o <<"other">>

\* the buckets that get a file, in write order
RECURSIVE NonEmptyBuckets(_, _)
NonEmptyBuckets(bk, order) ==
    IF order = <<>> THEN <<>>
    ELSE IF bk[Head(order)] # <<>>
         THEN <<Head(order)>> \o NonEmptyBuckets(bk, Tail(order))
         ELSE NonEmptyBuckets(bk, Tail(order))

\* the output files after the first `k` bucket files have been written
RECURSIVE WriteBuckets(_, _, _, _)
WriteBuckets(files, bk, todo, k) ==
    IF todo = <<>> \/ k = 0 THEN files
    ELSE WriteBuckets(
             [files EXCEPT ![Head(todo)] = WriteFile(@, Join(bk[Head(todo)], <<NL>>))],
             bk, Tail(todo), k - 1)

\* except Exception as e: self.logger.error(...): the error ends here
SplitErrorRaised == "raise"

SplitError == "swallow"

(***************************************************************************)
(* generate_report                                                         *)
(***************************************************************************)
OutFiles == Buckets \cup {"hb"}

NoOutput == [exists |-> FALSE, data |-> <<>>]

\* len([l for l in infile if l.strip()])
NonBlankCount(text) ==
    LET fl == FileLines(text)
    IN  Cardinality({i \in 1..Len(fl) : Strip(fl[i]) # <<>>})

NoReport == [exists |-> FALSE, stamp |-> 0, inputs |-> 0, outputs |-> 0,
             listing |-> [f \in OutFiles |-> -1]]

ReportText(dir, files, now) ==
    [exists |-> TRUE,
     stamp |-> now,
     inputs |-> Cardinality(Glob(dir, DotTxt)),
     outputs |-> Cardinality({f \in OutFiles : files[f].exists}),
     listing |-> [f \in OutFiles |->
                    IF files[f].exists THEN NonBlankCount(files[f].data) ELSE -1]]

(***************************************************************************)
(* State.                                                                  *)
(*   nodes    the nodes directory (the upstream producers own it)          *)
(*   marker   <base>/.last_hash                                            *)
(*   out      the *.txt files of <base>/output: hb.txt and the buckets     *)
(*   report   <base>/output/REPORT.md                                      *)
(*   pc       the position of run(); force its argument; result what it    *)
(*            returned ("True", "False") or "exception" when it raised     *)
(*   runs     the number of run() calls so far (also the clock of the      *)
(*            report's time stamp); faults the file operations that have   *)
(*            failed so far                                                *)
(*   cur      what the current (or last) run saw and did; prev the same    *)
(*            for the run before it                                        *)
(***************************************************************************)
VARIABLES nodes, marker, out, report, pc, force, result, runs, faults, cur, prev

vars == <<nodes, marker, out, report, pc, force, result, runs, faults, cur, prev>>

NoRun ==
    [ran |-> FALSE, force |-> FALSE, outcome |-> "none", nodes |-> NoDir,
     last |-> NoMarker, hash |-> EmptyHash, changed |-> FALSE,
     outStart |-> [f \in OutFiles |-> NoOutput], reportStart |-> NoReport,
     merged |-> FALSE,
     split |-> "none", buckets |-> EmptyBuckets, report |-> "none"]

\* what a run leaves for the next one to be compared with
Summary(r) ==
    [ran |-> r.ran, force |-> r.force, outcome |-> r.outcome, nodes |-> r.nodes,
     split |-> r.split]

Between == pc \in {"idle", "returned", "raised"}

Init ==
    /\ nodes \in Dirs
    /\ marker = NoMarker
    /\ out = [f \in OutFiles |-> NoOutput]
    /\ report = NoReport
    /\ pc = "idle"
    /\ force = FALSE
    /\ result = "none"
    /\ runs = 0
    /\ faults = 0
    /\ cur = NoRun
    /\ prev = Summary(NoRun)

\* the upstream producers replace the content of the nodes directory
Sync ==
    /\ Between
    /\ 0 < runs /\ runs < MaxRuns
    /\ \E d \in Dirs \ {nodes} : nodes' = d
    /\ UNCHANGED <<marker, out, report, pc, force, result, runs, faults, cur, prev>>

\* processor.run(force=f) is called
StartRun ==
    /\ Between
    /\ runs < MaxRuns
    /\ \E f \in BOOLEAN :
         /\ force' = f
         /\ cur' = [NoRun EXCEPT !.ran = TRUE, !.force = f, !.outcome = "running",
                                 !.nodes = nodes, !.last = marker,
                                 !.outStart = out,
                                 !.reportStart = report]
    /\ prev' = Summary(cur)
    /\ runs' = runs + 1
    /\ result' = "none"
    /\ pc' = "check_changes"
    /\ UNCHANGED <<nodes, marker, out, report, faults>>

\* has_changes, current_hash = self.check_changes(), and the skip that follows
CheckChanges ==
    /\ pc = "check_changes"
    /\ \/ \* the marker file cannot be opened: nothing catches the exception
          /\ faults < MaxFaults
          /\ faults' = faults + 1
          /\ pc' = "raised"
          /\ result' = "exception"
          /\ cur' = [cur EXCEPT !.outcome = "raised"]
          /\ UNCHANGED marker
       \/ LET current_hash == calculate_hash(nodes)
              has_changes == HasChanges(marker, current_hash)
          IN  /\ marker' = SaveHash(marker, current_hash)
              /\ IF ~has_changes /\ ~force
                 THEN /\ pc' = "returned"
                      /\ result' = "False"
                      /\ cur' = [cur EXCEPT !.hash = current_hash,
                                            !.changed = has_changes,
                                            !.outcome = "skipped"]
                 ELSE /\ pc' = "merge_files"
                      /\ result' = result
                      /\ cur' = [cur EXCEPT !.hash = current_hash,
                                            !.changed = has_changes]
              /\ UNCHANGED faults
    /\ UNCHANGED <<nodes, out, report, force, runs, prev>>

\* merged_file = self.merge_files()
MergeFiles ==
    /\ pc = "merge_files"
    /\ \/ \* hb.txt cannot be opened for writing: run() catches the exception
          /\ faults < MaxFaults
          /\ faults' = faults + 1
          /\ pc' = "returned"
          /\ result' = "False"
          /\ cur' = [cur EXCEPT !.outcome = "failed"]
          /\ UNCHANGED out
       \/ /\ out' = [out EXCEPT !["hb"] = WriteFile(@, MergedText(nodes))]
          /\ pc' = "split_by_protocol"
          /\ cur' = [cur EXCEPT !.merged = TRUE]
          /\ UNCHANGED <<faults, result>>
    /\ UNCHANGED <<nodes, marker, report, force, runs, prev>>

\* where run() goes when split_by_protocol met an error
AfterSplitError(how) ==
    /\ pc' = IF SplitError = "swallow" THEN "generate_report" ELSE "returned"
    /\ result' = IF SplitError = "swallow" THEN result ELSE "False"
    /\ cur' = [cur EXCEPT !.split = how,
                          !.outcome = IF SplitError = "swallow" THEN @ ELSE "failed"]

\* self.split_by_protocol(merged_file)
SplitByProtocol ==
    /\ pc = "split_by_protocol"
    /\ \/ \* the merged file cannot be opened
          /\ faults < MaxFaults
          /\ faults' = faults + 1
          /\ AfterSplitError("read_failed")
          /\ UNCHANGED out
       \/ \* a bucket file cannot be opened, after k of them were written
          /\ faults < MaxFaults
          /\ faults' = faults + 1
          /\ LET bk == Classify(out["hb"].data)
                 todo == NonEmptyBuckets(bk, WriteOrder)
             IN  /\ todo # <<>>
                 /\ \E k \in 0..(Len(todo) - 1) :
                      out' = WriteBuckets(out, bk, todo, k)
          /\ AfterSplitError("write_failed")
       \/ LET bk == Classify(out["hb"].data)
              todo == NonEmptyBuckets(bk, WriteOrder)
          IN  /\ out' = WriteBuckets(out, bk, todo, Len(todo))
              /\ cur' = [cur EXCEPT !.split = "done", !.buckets = bk]
          /\ pc' = "generate_report"
          /\ UNCHANGED <<faults, result>>
    /\ UNCHANGED <<nodes, marker, report, force, runs, prev>>

\* self.generate_report(), then return True
GenerateReport ==
    /\ pc = "generate_report"
    /\ \/ \* REPORT.md cannot be opened: run() catches the exception
          /\ faults < MaxFaults
          /\ faults' = faults + 1
          /\ result' = "False"
          /\ cur' = [cur EXCEPT !.outcome = "failed", !.report = "failed"]
          /\ UNCHANGED report
       \/ /\ report' = ReportText(nodes, out, runs)
          /\ result' = "True"
          /\ cur' = [cur EXCEPT !.outcome = "done", !.report = "done"]
          /\ UNCHANGED faults
    /\ pc' = "returned"
    /\ UNCHANGED <<nodes, marker, out, force, runs, prev>>

Next == Sync \/ StartRun \/ CheckChanges \/ MergeFiles \/ SplitByProtocol \/ GenerateReport

Spec == Init /\ [][Next]_vars
(***************************************************************************)
(* The classifier alone, on merged documents of up to MaxDocLines lines    *)
(* drawn from LinePool: every line ends with its newline.                  *)
(***************************************************************************)
MaxDocLines == 2

LinePool ==
    << <<"v", "l", "e", "s", "s", ":", "/", "/", "x">>,
       <<"V", "L", "E", "S", "S", ":", "/", "/", "x">>,
       <<"v", "m", "e", "s", "s", ":", "/", "/", "x">>,
       <<"V", "M", "e", "s", "s", ":", "/", "/", "x">>,
       <<"t", "r", "o", "j", "a", "n", ":", "/", "/", "x">>,
       <<"T", "R", "O", "J", "A", "N", ":", "/", "/", "x">>,
       <<"s", "s", ":", "/", "/", "x">>,
       <<"S", "S", ":", "/", "/", "x">>,
       <<"s", "s", "r", ":", "/", "/", "x">>,
       <<"S", "s", "R", ":", "/", "/", "x">>,
       <<"h", "t", "t", "p", ":", "/", "/", "x">>,
       <<"H", "T", "T", "P", ":", "/", "/", "x">>,
       <<"h", "t", "t", "p", "s", ":", "/", "/", "x">>,
       <<"H", "t", "t", "p", "S", ":", "/", "/", "x">>,
       <<"s", "o", "c", "k", "s", "5", ":", "/", "/", "x">>,
       <<"S", "O", "C", "K", "S", "5", ":", "/", "/", "x">>,
       <<"v", "l", "e", "s", "s", ":", "/", "/">>,
       <<"j", "u", "n", "k">>,
       <<"s", "s", ":", "/", "x">>,
       <<"x", "s", "s", ":", "/", "/", "x">>,
       <<"#", "s", "s", ":", "/", "/", "x">>,
       <<" ", "#", "c">>,
       <<>>,
       <<" ">>,
       <<" ", "s", "s", ":", "/", "/", "x", " ">>,
       <<"s">> >>

RECURSIVE DocText(_)
DocText(ls) ==
    IF ls = <<>> THEN <<>> ELSE LinePool[Head(ls)] \o <<NL>> \o DocText(Tail(ls))

Docs ==
    UNION { {DocText(ls) : ls \in [1..n -> 1..Len(LinePool)]} : n \in 0..MaxDocLines }

InitClassify ==
    /\ nodes = NoDir
    /\ marker = [exists |-> TRUE, hash |-> EmptyHash]
    /\ \E d \in Docs : out = [f \in OutFiles |-> IF f = "hb" THEN WriteFile(NoOutput, d) ELSE NoOutput]
    /\ report = NoReport
    /\ pc = "split_by_protocol"
    /\ force = TRUE
    /\ result = "none"
    /\ runs = 1
    /\ faults = 0
    /\ cur = [NoRun EXCEPT !.ran = TRUE, !.force = TRUE, !.outcome = "running",
                            !.changed = TRUE, !.merged = TRUE, !.outStart = out]
    /\ prev = Summary(NoRun)

NextClassify == SplitByProtocol

SpecClassify == InitClassify /\ [][NextClassify]_vars
(***************************************************************************)
(* Vocabulary of the claims.                                               *)
(***************************************************************************)
\* the change check of the current run has returned
Checked == cur.ran /\ pc \in {"merge_files", "split_by_protocol", "generate_report", "returned"}

\* the change check of the run before the current one returned
PrevChecked == prev.ran /\ prev.outcome \in {"skipped", "done", "failed"}

\* no file operation of the run failed
Clean(r) == r.outcome \notin {"raised", "failed"} /\ r.split \notin {"read_failed", "write_failed"}

\* how often x occurs in the sequence s
Count(s, x) == Cardinality({i \in 1..Len(s) : s[i] = x})

\* p is a prefix of line when letters are compared without regard to case
PrefixIgnoringCase(line, p) ==
    /\ Len(line) >= Len(p)
    /\ \A j \in 1..Len(p) : LowerChar(line[j]) = LowerChar(p[j])

MatchingProtocols(line) == {p \in ProtocolSet : PrefixIgnoringCase(line, Prefix(p))}

\* the bucket the claim assigns to a trimmed, non-blank, non-comment line
BucketOf(line) ==
    IF MatchingProtocols(line) = {} THEN "other"
    ELSE CHOOSE p \in MatchingProtocols(line) : TRUE

\* the trimmed lines of a document
TrimmedLines(text) ==
    LET fl == FileLines(text) IN [i \in 1..Len(fl) |-> Strip(fl[i])]

\* C1: split_by_protocol puts every line of the merged document that is
\* non-blank after trimming and is no '#' comment into exactly one bucket, the
\* one of the protocol whose prefix it starts with (letters compared without
\* regard to case) or 'other' when none matches, once per occurrence; blank
\* lines and comment lines are in no bucket.
C1_PartitionByPrefix ==
    cur.split = "done" =>
        LET lines == TrimmedLines(out["hb"].data)
        IN  \A i \in 1..Len(lines) :
              LET t == lines[i]
              IN  IF t = <<>> \/ Head(t) = "#"
                  THEN \A b \in Buckets : Count(cur.buckets[b], t) = 0
                  ELSE /\ Cardinality(MatchingProtocols(t)) <= 1
                       /\ Count(cur.buckets[BucketOf(t)], t) = Count(lines, t)
                       /\ \A b \in Buckets \ {BucketOf(t)} : Count(cur.buckets[b], t) = 0

\* a document with a capital-letter scheme, a comment and a blank line has been split
C1_Witness ==
    /\ cur.split = "done"
    /\ Len(cur.buckets["vless"]) = 1
    /\ Lower(cur.buckets["vless"][1]) # cur.buckets["vless"][1]
    /\ LET lines == TrimmedLines(out["hb"].data)
       IN  \E i \in 1..Len(lines) : lines[i] # <<>> /\ Head(lines[i]) = "#"

\* C2 (as claimed): after a completed processing run the output directory
\* holds <bucket>.txt only for the buckets that are non-empty in that run.
C2_NoFileForEmptyBucket ==
    (pc = "returned" /\ cur.outcome = "done" /\ cur.split = "done") =>
        \A b \in Buckets : out[b].exists => cur.buckets[b] # <<>>

\* C3: a run without force that follows a run on the same nodes directory
\* content detects no change, returns False, and runs neither merge_files nor
\* split_by_protocol nor generate_report: every output file and the report
\* are as they were when it started.  (Both runs' change checks returned.)
C3_SecondRunSkips ==
    (Checked /\ ~cur.force /\ PrevChecked /\ prev.nodes = cur.nodes) =>
        /\ pc = "returned"
        /\ ~cur.changed
        /\ result = "False"
        /\ cur.outcome = "skipped"
        /\ ~cur.merged /\ cur.split = "none" /\ cur.report = "none"
        /\ out = cur.outStart
        /\ report = cur.reportStart

\* two runs without force on the same content, the first of which wrote outputs
C3_Witness ==
    /\ pc = "returned" /\ ~cur.force /\ ~prev.force
    /\ prev.outcome = "done" /\ prev.nodes = cur.nodes
    /\ cur.outcome = "skipped"
    /\ out["vless"].exists /\ report.exists

\* C4: once check_changes has returned, and whatever the run does after it,
\* the marker holds the fingerprint the call computed, which is the
\* fingerprint of the nodes directory at that run; changed is true exactly
\* when there was no marker before or the marker before differs from it.
C4_MarkerIsFingerprint ==
    Checked =>
        /\ marker = [exists |-> TRUE, hash |-> calculate_hash(cur.nodes)]
        /\ cur.hash = marker.hash
        /\ cur.changed <=> (~cur.last.exists \/ cur.last.hash # cur.hash)

\* a skipped run whose marker was there before, and a failed processing run
C4_Witness ==
    /\ pc = "returned"
    /\ cur.last.exists
    /\ \/ cur.outcome = "skipped"
       \/ cur.outcome = "failed" /\ cur.last.hash # cur.hash

\* C5 (as claimed): when the classifier cannot open the merged file the
\* reporter does not run and run() returns False.
C5_ReadFailureFailsRun ==
    (pc = "returned" /\ cur.split = "read_failed") =>
        (result = "False" /\ cur.report = "none")

\* C5 (amended): when the classifier cannot open the merged file, it writes
\* no bucket file and the error ends inside split_by_protocol: the reporter
\* runs next, and run() returns True unless the reporter itself fails.
C5_ReadFailureIsSwallowed ==
    cur.split = "read_failed" =>
        /\ pc \in {"generate_report", "returned"}
        /\ \A b \in Buckets : out[b] = cur.outStart[b]
        /\ pc = "returned" =>
             \/ cur.report = "done" /\ result = "True" /\ report.stamp = runs
             \/ cur.report = "failed" /\ result = "False"

\* the classifier failed to open the merged file and the run has returned True
C5_Witness ==
    pc = "returned" /\ cur.split = "read_failed" /\ result = "True" /\ cur.report = "done"

\* C6 (as claimed): run() never ends by raising an exception.
C6_NoExceptionEscapes == pc # "raised" /\ result # "exception"

\* C7: two runs with force, one after the other on the same nodes directory
\* content and without a failing file operation, both execute merge,
\* classify and report, and hb.txt and every bucket file are the same after
\* the second run as after the first.
C7_ForcedRerunIdempotent ==
    (pc = "returned" /\ cur.force /\ prev.ran /\ prev.force
        /\ prev.nodes = cur.nodes /\ Clean(prev) /\ Clean(cur)) =>
        /\ prev.outcome = "done" /\ prev.split = "done"
        /\ cur.outcome = "done" /\ cur.merged /\ cur.split = "done" /\ cur.report = "done"
        /\ \A f \in OutFiles : out[f] = cur.outStart[f]

\* two forced runs on a directory with node lines have completed
C7_Witness ==
    /\ pc = "returned" /\ cur.force /\ prev.force
    /\ prev.nodes = cur.nodes /\ Clean(prev) /\ Clean(cur)
    /\ cur.outcome = "done"
    /\ out["vless"].exists /\ out["ss"].exists /\ out["other"].exists

\* the readable *.txt files whose trimmed content is non-empty
NonEmptyTxt(dir) ==
    {n \in Names : /\ dir.exists /\ dir.files[n].exists /\ dir.files[n].readable
                   /\ EndsWith(n, DotTxt)
                   /\ Strip(dir.files[n].data) # <<>>}

\* the names of S in ascending lexicographic order
Ascending(S) ==
    CHOOSE s \in [1..Cardinality(S) -> S] :
        \A i, j \in 1..Cardinality(S) : i < j => StrLess(s[i], s[j])

\* the block of one file: its header line, then its trimmed content
Block(dir, n) == Header(n) \o <<NL>> \o Strip(dir.files[n].data) \o <<NL>>

\* C8: the merged document is made of one block per readable *.txt file with
\* non-empty trimmed content, in lexicographic order of file name, each block
\* the header line '# === <name> ===' followed by the trimmed content; the
\* other files contribute nothing.
C8_MergedDocument ==
    cur.merged =>
        LET order == Ascending(NonEmptyTxt(cur.nodes))
        IN  /\ out["hb"].exists
            /\ out["hb"].data =
                 Join([i \in 1..Len(order) |-> Block(cur.nodes, order[i])], <<NL>>)

\* two non-empty files were merged; a blank file was left out
C8_Witness ==
    /\ cur.merged
    /\ \/ Cardinality(NonEmptyTxt(cur.nodes)) = 2
       \/ /\ Cardinality(NonEmptyTxt(cur.nodes)) = 1
          /\ Cardinality(Glob(cur.nodes, DotTxt)) = 2

\* C9 (as claimed): when the processing of a run failed, the next run without
\* force on the unchanged nodes directory processes again.
C9_FailedRunIsRetried ==
    (Checked /\ ~cur.force /\ prev.ran /\ prev.outcome = "failed"
        /\ prev.nodes = cur.nodes) =>
        cur.outcome # "skipped"

\* the (name, content) pairs of the readable eligible files
ReadablePairs(dir) ==
    {<<n, dir.files[n].data>> : n \in {m \in Names :
        /\ dir.exists /\ dir.files[m].exists /\ dir.files[m].readable
        /\ \E k \in 1..Len(HashExts) : EndsWith(m, HashExts[k])}}

\* C10 (as claimed): when the readable eligible files of the nodes directory
\* differ from those at the run before, check_changes reports a change.
C10_ChangeDetected ==
    (Checked /\ PrevChecked /\ ReadablePairs(prev.nodes) # ReadablePairs(cur.nodes)) =>
        cur.changed
====
